---- MODULE Spec2Model ----
(***************************************************************************)
(* The authentication core of the recipe application as written in         *)
(* notes/authentication.md: the User model, AuthService (signup, login,    *)
(* handleError, handleAuthentication, autoLogin, logout, autoLogout) and   *)
(* the AuthComponent that calls it, with the readers of the session:       *)
(* AuthInterceptorService, AuthGuard and HeaderComponent.                  *)
(*                                                                         *)
(* Time is the value of new Date().getTime() in milliseconds.  The browser *)
(* is modelled by its timer table (setTimeout / clearTimeout), by          *)
(* localStorage['userData'] and by the list of HTTP requests in flight.    *)
(***************************************************************************)
EXTENDS Integers, Sequences, FiniteSets, TLC

----------------------------------------------------------------------------
(* Bounds of the model *)

MaxTicks == 3
MaxTimers == 2
MaxPending == 2
MaxTtl == 1
MaxLen == 4

(* Program constants *)

MsPerSec == 1000
NoTimer == 0

TickMs == MsPerSec \div 2
MaxTime == MaxTicks * TickMs

null == [null |-> TRUE]

Emails == {"a@x.io"}
LocalIdOf(email) == IF email = "a@x.io" THEN "uidA" ELSE "uidB"
IdTokenOf(email) == IF email = "a@x.io" THEN "tokA" ELSE "tokB"

----------------------------------------------------------------------------
(* Conversions *)

RECURSIVE ToNumber(_)
\* unary plus on a string of decimal digits (+resData.expiresIn)
ToNumber(digits) ==
  IF digits = <<>> THEN 0
  ELSE 10 * ToNumber(SubSeq(digits, 1, Len(digits) - 1)) + digits[Len(digits)]

\* Date.prototype.toJSON: the ISO-8601 text, here its seconds and milliseconds fields
DateToJSON(ms) == [sec |-> ms \div MsPerSec, milli |-> ms % MsPerSec]

\* a parse of the date that keeps whole seconds only
DateParse_WholeSeconds(iso) == iso.sec * MsPerSec

\* new Date(isoString).getTime()
DateParse(iso) == iso.sec * MsPerSec + iso.milli

\* an item of localStorage that is not JSON text
Malformed == [text |-> "not json"]

\* JSON.parse(localStorage.getItem('userData')): null for a missing item, a
\* SyntaxError for text that is not JSON, else the stored document
JSONparse(item) ==
  IF item = Malformed THEN [threw |-> TRUE, value |-> null]
  ELSE [threw |-> FALSE, value |-> item]

\* JSON.stringify(user): own enumerable properties, the Date through toJSON
JSONstringify(u) ==
  [email |-> u.email, id |-> u.id, _token |-> u._token,
   _tokenExpirationDate |-> DateToJSON(u._tokenExpirationDate)]

----------------------------------------------------------------------------
(* user.model.ts *)

User(email, id, token, expirationDate) ==
  [email |-> email, id |-> id, _token |-> token,
   _tokenExpirationDate |-> expirationDate]

\* get token(), evaluated when new Date() is t
tokenAt(u, t) ==
  IF t > u._tokenExpirationDate THEN null ELSE [value |-> u._token]

----------------------------------------------------------------------------
VARIABLES
  now,                   \* new Date().getTime()
  phase,                 \* "boot": AppComponent.ngOnInit not yet run; "running"
  user,                  \* AuthService.user (BehaviorSubject value): null or a User
  store,                 \* localStorage['userData']: null or the stringified User
  timers,                \* the browser's pending timeouts: records [id, at]
  nextTimer,             \* the handle the next setTimeout returns
  tokenExpirationTimer,  \* AuthService.tokenExpirationTimer
  effects,               \* calls made by the AuthService method run last, in order
  pending,               \* HTTP requests in flight, in sending order
  isLoading,             \* AuthComponent.isLoading
  error,                 \* AuthComponent.error
  userSub,               \* HeaderComponent.userSub: the subscription exists
  isAuthenticated,       \* HeaderComponent.isAuthenticated
  req,                   \* the HttpRequest dispatched last, as its caller holds
                         \* it after the dispatch (null: none dispatched yet)
  returned,              \* what the step just taken handed back: null, or the
                         \* request given to next.handle, or canActivate's
                         \* result, or the values delivered on subscribing,
                         \* or the notification given to authObs's observer
  stack,                 \* the statements the AuthService method now executing
                         \* still has to run (empty between tasks)
  heap,                  \* the arrays of recipes: RecipeService.recipes, the
                         \* array a getRecipes call created last (copy) and
                         \* the array the caller was given before (old)
  held                   \* the array a caller of getRecipes holds a reference
                         \* to: "none", "recipes" or "copy"

svcVars == <<user, store, timers, nextTimer, tokenExpirationTimer, effects>>
cmpVars == <<isLoading, error>>
hdrVars == <<userSub, isAuthenticated>>
rcpVars == <<heap, held>>
vars == <<now, phase, user, store, timers, nextTimer, tokenExpirationTimer,
          effects, pending, isLoading, error, userSub, isAuthenticated,
          req, returned, stack, heap, held>>

\* The service and browser state a handler works on
Svc ==
  [user |-> user, store |-> store, timers |-> timers, nextTimer |-> nextTimer,
   tokenExpirationTimer |-> tokenExpirationTimer, effects |-> effects]

Begin(s) == [s EXCEPT !.effects = <<>>]
Did(s, what) == [s EXCEPT !.effects = Append(@, what)]

----------------------------------------------------------------------------
(* auth.service.ts *)

setTimeout(s, duration) ==
  [s EXCEPT !.timers = @ \cup {[id |-> s.nextTimer, at |-> now + duration]},
            !.nextTimer = @ + 1]

clearTimeout(s, id) == [s EXCEPT !.timers = {t \in @ : t.id # id}]

\* autoLogout that does not keep the handle setTimeout returns
autoLogout_NoHandle(s, expirationDuration) ==
  Did(setTimeout(s, expirationDuration), "setTimeout")

\* autoLogout that keeps a handle but never schedules the callback
autoLogout_NoCallback(s, expirationDuration) ==
  Did([s EXCEPT !.tokenExpirationTimer = s.nextTimer, !.nextTimer = @ + 1],
      "setTimeout")

autoLogout(s, expirationDuration) ==
  Did([setTimeout(s, expirationDuration)
         EXCEPT !.tokenExpirationTimer = s.nextTimer], "setTimeout")

\* logout() that forgets localStorage.removeItem
logout_KeepsItem(s) ==
  LET s1 == Did([s EXCEPT !.user = null], "next")
      s2 == Did(s1, "navigate")
      s4 == IF s2.tokenExpirationTimer # NoTimer
            THEN Did(clearTimeout(s2, s2.tokenExpirationTimer), "clearTimeout")
            ELSE s2
  IN  [s4 EXCEPT !.tokenExpirationTimer = NoTimer]

logout(s) ==
  LET s1 == Did([s EXCEPT !.user = null], "next")
      s2 == Did(s1, "navigate")
      s3 == Did([s2 EXCEPT !.store = null], "removeItem")
      s4 == IF s3.tokenExpirationTimer # NoTimer
            THEN Did(clearTimeout(s3, s3.tokenExpirationTimer), "clearTimeout")
            ELSE s3
  IN  [s4 EXCEPT !.tokenExpirationTimer = NoTimer]

\* handleAuthentication that takes expiresIn for milliseconds
handleAuthentication_NoMs(s, email, userId, token, expiresIn) ==
  LET expirationDate == now + expiresIn
      u == User(email, userId, token, expirationDate)
      s1 == Did([s EXCEPT !.user = u], "next")
      s2 == autoLogout(s1, expiresIn)
  IN  Did([s2 EXCEPT !.store = JSONstringify(u)], "setItem")

\* handleAuthentication without the localStorage.setItem
handleAuthentication_NoSetItem(s, email, userId, token, expiresIn) ==
  LET expirationDate == now + expiresIn * MsPerSec
      u == User(email, userId, token, expirationDate)
      s1 == Did([s EXCEPT !.user = u], "next")
  IN  autoLogout(s1, expiresIn * MsPerSec)

\* handleAuthentication that keeps a session that is already there
handleAuthentication_KeepFirst(s, email, userId, token, expiresIn) ==
  LET expirationDate == now + expiresIn * MsPerSec
      u == User(email, userId, token, expirationDate)
      s1 == Did([s EXCEPT !.user = u], "next")
      s2 == autoLogout(s1, expiresIn * MsPerSec)
  IN  IF s.user # null THEN s
      ELSE Did([s2 EXCEPT !.store = JSONstringify(u)], "setItem")

handleAuthentication(s, email, userId, token, expiresIn) ==
  LET expirationDate == now + expiresIn * MsPerSec
      u == User(email, userId, token, expirationDate)
      s1 == Did([s EXCEPT !.user = u], "next")
      s2 == autoLogout(s1, expiresIn * MsPerSec)
  IN  Did([s2 EXCEPT !.store = JSONstringify(u)], "setItem")

\* autoLogin that arms the timer for the expiration date, not for what is left
autoLogin_FullDuration(s) ==
  LET parsed == JSONparse(s.store)
      userData == parsed.value
      s0 == Did(s, "getItem")
  IN  IF parsed.threw THEN Did(s0, "throw")
      ELSE IF userData = null THEN s0
      ELSE LET loadedUser == User(userData.email, userData.id, userData._token,
                                  DateParse(userData._tokenExpirationDate))
           IN  IF tokenAt(loadedUser, now) # null
               THEN LET s1 == Did([s0 EXCEPT !.user = loadedUser], "next")
                        expirationDuration ==
                          DateParse(userData._tokenExpirationDate)
                    IN  autoLogout(s1, expirationDuration)
               ELSE s0

autoLogin(s) ==
  LET parsed == JSONparse(s.store)
      userData == parsed.value
      s0 == Did(s, "getItem")
  IN  IF parsed.threw THEN Did(s0, "throw")
      ELSE IF userData = null THEN s0
      ELSE LET loadedUser == User(userData.email, userData.id, userData._token,
                                  DateParse(userData._tokenExpirationDate))
           IN  IF tokenAt(loadedUser, now) # null
               THEN LET s1 == Did([s0 EXCEPT !.user = loadedUser], "next")
                        expirationDuration ==
                          DateParse(userData._tokenExpirationDate) - now
                    IN  autoLogout(s1, expirationDuration)
               ELSE s0

\* handleError without the INVALID_PASSWORD case
handleError_NoInvalidPassword(errorRes) ==
  IF errorRes.error = null THEN "An unknown error occurred!"
  ELSE IF errorRes.error.error = null THEN "An unknown error occurred!"
  ELSE CASE errorRes.error.error.message = "EMAIL_EXISTS" ->
              "This email exists already"
         [] errorRes.error.error.message = "EMAIL_NOT_FOUND" ->
              "This email does not exist."
         [] OTHER -> "An unknown error occurred!"

handleError(errorRes) ==
  IF errorRes.error = null THEN "An unknown error occurred!"
  ELSE IF errorRes.error.error = null THEN "An unknown error occurred!"
  ELSE CASE errorRes.error.error.message = "EMAIL_EXISTS" ->
              "This email exists already"
         [] errorRes.error.error.message = "EMAIL_NOT_FOUND" ->
              "This email does not exist."
         [] errorRes.error.error.message = "INVALID_PASSWORD" ->
              "This password is not correct."
         [] OTHER -> "An unknown error occurred!"

\* a pipe whose error branch also clears the session
authPipe_LogoutOnError(s, res) ==
  IF res.ok
  THEN [kind |-> "next", value |-> res,
        svc |-> handleAuthentication(s, res.email, res.localId, res.idToken,
                                     ToNumber(res.expiresIn))]
  ELSE [kind |-> "error", value |-> handleError(res),
        svc |-> Did(logout(s), "throwError")]

\* .pipe(catchError(this.handleError), tap(resData => handleAuthentication(...)))
\* the notification that reaches the subscriber, and the service state after it
authPipe(s, res) ==
  IF res.ok
  THEN [kind |-> "next", value |-> res,
        svc |-> handleAuthentication(s, res.email, res.localId, res.idToken,
                                     ToNumber(res.expiresIn))]
  ELSE [kind |-> "error", value |-> handleError(res),
        svc |-> Did(s, "throwError")]

\* the http.post observable signup returns, while its request is in flight;
\* stale records that logout() has run since it was sent
signup(email) == [email |-> email, stale |-> FALSE]

\* "same for login": the same pipe on the verifyPassword endpoint
login(email) == [email |-> email, stale |-> FALSE]

----------------------------------------------------------------------------
(* The readers of AuthService.user *)

\* a subject that keeps no value: nothing is delivered on subscribing
subscribe_PlainSubject(s) == <<>>

\* user.subscribe(observer) on a BehaviorSubject: the values delivered during
\* the call, that is its current value
subscribe(s) == <<s.user>>

\* user.pipe(take(1)): a BehaviorSubject hands its current value to a new
\* subscriber at once
take1(s) == s.user

\* new HttpParams().set(key, value)
HttpParamsSet(key, value) == {[key |-> key, value |-> value]}

\* the request http.post builds in AuthService.login: the key is part of the
\* URL, the request has no parameters; obj tells the object the caller built
\* from one that clone() made
LoginRequest == [url |-> "verifyPassword", params |-> {}, obj |-> "built"]

\* the request http.post builds in AuthService.signup, likewise without
\* parameters
SignupRequest == [url |-> "signupNewUser", params |-> {}, obj |-> "built"]

\* DataStorageService.fetchRecipes: the requests it gives to the HTTP client.
\* The method builds the pipe on user and drops it, neither returned nor
\* subscribed, so the function given to exhaustMap never runs and http.get is
\* never called
fetchRecipes(s) == {}

\* the requests the HTTP client can be given: one just built by login or
\* signup (fetchRecipes builds none), or the one dispatched before, dispatched
\* again by its caller
Dispatchable(s, held0) ==
  {LoginRequest, SignupRequest}
    \cup fetchRecipes(s)
    \cup (IF held0 = null THEN {} ELSE {held0})

\* req.clone({params: ...}): a new request, the given parameters in place of
\* the old ones
clone(r, update) == [r EXCEPT !.params = update.params, !.obj = "clone"]

\* intercept with the test of the user inverted
intercept_Inverted(s, r) ==
  LET u == take1(s)
  IN  IF u # null
      THEN [req |-> r, handled |-> r]
      ELSE [req |-> r, handled |-> clone(r, [params |-> HttpParamsSet("auth", null)])]

\* intercept that sets the parameter on the request it was given
intercept_InPlace(s, r) ==
  LET u == take1(s)
  IN  IF u = null
      THEN [req |-> r, handled |-> r]
      ELSE LET modifiedReq ==
                 clone(r, [params |-> HttpParamsSet("auth", tokenAt(u, now))])
           IN  [req |-> modifiedReq, handled |-> modifiedReq]

\* AuthInterceptorService.intercept: the request the caller holds afterwards and
\* the request given to next.handle
intercept(s, r) ==
  LET u == take1(s)
  IN  IF u = null
      THEN [req |-> r, handled |-> r]
      ELSE LET modifiedReq ==
                 clone(r, [params |-> HttpParamsSet("auth", tokenAt(u, now))])
           IN  [req |-> r, handled |-> modifiedReq]

\* this.router.createUrlTree(commands)
createUrlTree(commands) == [type |-> "UrlTree", commands |-> commands]

\* AuthGuard.canActivate: true, or the UrlTree to redirect to
canActivate(s) ==
  LET u == take1(s)
      isAuth == u # null
  IN  IF isAuth THEN [type |-> "boolean", value |-> TRUE]
      ELSE createUrlTree(<<"/auth">>)

----------------------------------------------------------------------------
(* The Auth Gateway's answers *)

ExpiresInStrings == {<<d>> : d \in 0..MaxTtl}

OkResponses(email) ==
  {[ok |-> TRUE, email |-> email, localId |-> LocalIdOf(email),
    idToken |-> IdTokenOf(email), expiresIn |-> e] : e \in ExpiresInStrings}

ErrorMessages ==
  {"EMAIL_EXISTS", "EMAIL_NOT_FOUND", "INVALID_PASSWORD", "TOO_MANY_ATTEMPTS"}

ErrorResponses ==
  {[ok |-> FALSE, error |-> null], [ok |-> FALSE, error |-> [error |-> null]]}
  \cup {[ok |-> FALSE, error |-> [error |-> [message |-> m]]] : m \in ErrorMessages}

Responses(email) == OkResponses(email) \cup ErrorResponses

----------------------------------------------------------------------------
(* recipe.service.ts *)

\* the two Recipe objects the service creates, by name
Recipes0 == <<"A Test Recipe", "Another Test Recipe">>

\* a Recipe object a caller creates
OtherRecipe == "Pizza"

Heap0 == [recipes |-> Recipes0, copy |-> <<>>, old |-> <<>>]

\* Array.prototype.slice(): a new array with the same elements
slice(array) == [k \in 1..Len(array) |-> array[k]]

\* getRecipes that returns the array of the service itself
getRecipes_NoCopy(h) == [heap |-> h, ref |-> "recipes"]

\* RecipeService.getRecipes: the heap afterwards and the array returned
getRecipes(h) == [heap |-> [h EXCEPT !.copy = slice(h.recipes)], ref |-> "copy"]

----------------------------------------------------------------------------
\* user.next that does not reach the header's observer
Apply_NotDelivered(s) ==
  /\ isAuthenticated' = isAuthenticated
  /\ user' = s.user
  /\ store' = s.store
  /\ timers' = s.timers
  /\ nextTimer' = s.nextTimer
  /\ tokenExpirationTimer' = s.tokenExpirationTimer
  /\ effects' = s.effects

\* a header observer that calls logout() when it is handed a credential
\* whose expiration date is not in the future
Apply_ReentrantObserver(s) ==
  LET notified == userSub /\ "next" \in {s.effects[k] : k \in DOMAIN s.effects}
      expired == s.user # null /\ s.user._tokenExpirationDate <= now
      s1 == IF notified /\ expired THEN logout(s) ELSE s
  IN  /\ isAuthenticated' = IF notified THEN s1.user # null ELSE isAuthenticated
      /\ user' = s1.user
      /\ store' = s1.store
      /\ timers' = s1.timers
      /\ nextTimer' = s1.nextTimer
      /\ tokenExpirationTimer' = s1.tokenExpirationTimer
      /\ effects' = s1.effects

\* user.next(value) runs the header's observer, if it is subscribed
Apply(s) ==
  /\ isAuthenticated' =
       IF userSub /\ "next" \in {s.effects[k] : k \in DOMAIN s.effects}
       THEN s.user # null
       ELSE isAuthenticated
  /\ user' = s.user
  /\ store' = s.store
  /\ timers' = s.timers
  /\ nextTimer' = s.nextTimer
  /\ tokenExpirationTimer' = s.tokenExpirationTimer
  /\ effects' = s.effects

\* a request in flight when logout() runs is from then on a stale one
MarkStale(reqs) == [i \in DOMAIN reqs |-> [reqs[i] EXCEPT !.stale = TRUE]]

Remove(seq, i) == SubSeq(seq, 1, i - 1) \o SubSeq(seq, i + 1, Len(seq))

Init ==
  /\ now = 0
  /\ phase = "boot"
  /\ user = null
  /\ store = null
  /\ timers = {}
  /\ nextTimer = 1
  /\ tokenExpirationTimer = NoTimer
  /\ effects = <<>>
  /\ pending = <<>>
  /\ isLoading = FALSE
  /\ error = null
  /\ userSub = FALSE
  /\ isAuthenticated = FALSE
  /\ req = null
  /\ returned = null
  /\ stack = <<>>
  /\ heap = Heap0
  /\ held = "none"

\* the clock advances
Tick ==
  /\ now < MaxTime
  /\ now' = now + TickMs
  /\ returned' = null
  /\ UNCHANGED <<rcpVars, phase, svcVars, pending, cmpVars, hdrVars, req, stack>>

\* AppComponent.ngOnInit
AutoLogin ==
  /\ phase = "boot"
  /\ phase' = "running"
  /\ Apply(autoLogin(Begin(Svc)))
  /\ returned' = null
  /\ UNCHANGED <<rcpVars, now, pending, cmpVars, userSub, req, stack>>

\* localStorage is written from outside the application while the page is
\* closed: the item is no longer JSON text
Tamper ==
  /\ phase = "boot"
  /\ store # Malformed
  /\ store' = Malformed
  /\ returned' = null
  /\ UNCHANGED <<rcpVars, now, phase, user, timers, nextTimer, tokenExpirationTimer,
                 effects, pending, cmpVars, hdrVars, req, stack>>

\* the page is closed or reloaded: memory, timers and requests are gone,
\* localStorage stays
Reload ==
  /\ phase = "running"
  /\ phase' = "boot"
  /\ user' = null
  /\ timers' = {}
  /\ nextTimer' = 1
  /\ tokenExpirationTimer' = NoTimer
  /\ effects' = <<>>
  /\ userSub' = FALSE
  /\ isAuthenticated' = FALSE
  /\ UNCHANGED store
  /\ pending' = <<>>
  /\ isLoading' = FALSE
  /\ error' = null
  /\ returned' = null
  /\ req' = null
  /\ UNCHANGED now
  /\ heap' = Heap0
  /\ held' = "none"
  /\ stack' = <<>>

\* AuthComponent.onSubmit with an invalid form
OnSubmitInvalid ==
  /\ phase = "running"
  /\ returned' = null
  /\ UNCHANGED <<rcpVars, now, phase, svcVars, pending, cmpVars, hdrVars, req, stack>>

\* AuthComponent.onHandleError: the alert is closed
OnHandleError ==
  /\ phase = "running"
  /\ error' = null
  /\ returned' = null
  /\ UNCHANGED <<rcpVars, now, phase, svcVars, pending, isLoading, hdrVars, req, stack>>

\* AuthComponent.onSubmit with a valid form: authService.login or signup;
\* authObs.subscribe sends the request, which the HTTP client hands to the
\* interceptor before onSubmit returns
OnSubmit(isLoginMode, email) ==
  /\ phase = "running"
  /\ Len(pending) < MaxPending
  /\ isLoading' = TRUE
  /\ pending' = Append(pending,
                  IF isLoginMode THEN login(email) ELSE signup(email))
  /\ LET r == intercept(Svc, IF isLoginMode THEN LoginRequest ELSE SignupRequest)
     IN  /\ req' = r.req
         /\ returned' = [kind |-> "handle", req |-> r.handled]
  /\ UNCHANGED <<rcpVars, now, phase, svcVars, error, hdrVars, stack>>

\* the answer to request i arrives
Respond(i, res) ==
  /\ phase = "running"
  /\ i \in DOMAIN pending
  /\ res.ok => nextTimer <= MaxTimers
  /\ LET out == authPipe(Begin(Svc), res)
     IN  /\ IF out.kind = "next"
            THEN /\ Apply(out.svc)
                 /\ isLoading' = FALSE
                 /\ error' = error
            ELSE /\ Apply(out.svc)
                 /\ error' = [message |-> out.value]
                 /\ isLoading' = FALSE
         /\ returned' = [kind |-> out.kind, value |-> out.value]
  /\ pending' = Remove(pending, i)
  /\ UNCHANGED <<rcpVars, now, phase, userSub, req, stack>>

\* HeaderComponent.onLogout -> authService.logout()
Logout ==
  /\ phase = "running"
  /\ Apply(logout(Begin(Svc)))
  /\ pending' = MarkStale(pending)
  /\ returned' = null
  /\ UNCHANGED <<rcpVars, now, phase, cmpVars, userSub, req, stack>>

\* a timeout set by autoLogout comes due and its callback runs logout()
TimerFire(t) ==
  /\ phase = "running"
  /\ t \in timers
  /\ t.at <= now
  /\ Apply(logout([Begin(Svc) EXCEPT !.timers = @ \ {t}]))
  /\ pending' = MarkStale(pending)
  /\ returned' = null
  /\ UNCHANGED <<rcpVars, now, phase, cmpVars, userSub, req, stack>>

\* HeaderComponent.ngOnInit: subscribe to authService.user
HeaderInit ==
  /\ phase = "running"
  /\ ~userSub
  /\ userSub' = TRUE
  /\ LET delivered == subscribe(Svc)
     IN  /\ isAuthenticated' =
              IF delivered = <<>> THEN isAuthenticated
              ELSE delivered[Len(delivered)] # null
         /\ returned' = [kind |-> "subscribe", delivered |-> delivered]
  /\ UNCHANGED <<rcpVars, now, phase, svcVars, pending, cmpVars, req, stack>>

\* an interceptor that calls logout() when it finds the token expired
Intercept_LogsOutExpired ==
  /\ phase = "running"
  /\ \E given \in Dispatchable(Svc, req) :
       LET r == intercept(Svc, given)
           expired == user # null /\ tokenAt(user, now) = null
       IN  /\ Apply(IF expired THEN logout(Begin(Svc)) ELSE Svc)
           /\ req' = r.req
           /\ returned' = [kind |-> "handle", req |-> r.handled]
  /\ UNCHANGED <<rcpVars, now, phase, pending, cmpVars, userSub, stack>>

\* the HTTP client is given a request outside onSubmit, a new one or the one
\* dispatched before: AuthInterceptorService.intercept
Intercept ==
  /\ phase = "running"
  /\ \E given \in Dispatchable(Svc, req) :
       LET r == intercept(Svc, given)
       IN  /\ req' = r.req
           /\ returned' = [kind |-> "handle", req |-> r.handled]
  /\ UNCHANGED <<rcpVars, now, phase, svcVars, pending, cmpVars, hdrVars, stack>>

\* the router enters the recipes path: AuthGuard.canActivate
CanActivate ==
  /\ phase = "running"
  /\ returned' = [kind |-> "canActivate", result |-> canActivate(Svc)]
  /\ UNCHANGED <<rcpVars, now, phase, svcVars, pending, cmpVars, hdrVars, req, stack>>

----------------------------------------------------------------------------
(* The same methods statement by statement: a task of the event loop runs  *)
(* user.next first and then the statements kept in stack; the event loop   *)
(* starts the next task when the one before has returned.                  *)

Statement(op, arg) == [op |-> op, arg |-> arg]

\* one statement of handleAuthentication or logout after its user.next
exec(s, st) ==
  CASE st.op = "autoLogout" -> autoLogout(s, st.arg)
    [] st.op = "setItem" -> Did([s EXCEPT !.store = JSONstringify(st.arg)], "setItem")
    [] st.op = "navigate" -> Did(s, "navigate")
    [] st.op = "removeItem" -> Did([s EXCEPT !.store = null], "removeItem")
    [] st.op = "clearTimeout" ->
         [(IF s.tokenExpirationTimer # NoTimer
           THEN Did(clearTimeout(s, s.tokenExpirationTimer), "clearTimeout")
           ELSE s) EXCEPT !.tokenExpirationTimer = NoTimer]
    [] OTHER -> s

\* the answer to request i is a success: tap runs handleAuthentication up to
\* and including user.next(user)
HandleAuthenticationBegin(i, res) ==
  /\ phase = "running"
  /\ stack = <<>>
  /\ i \in DOMAIN pending
  /\ res.ok
  /\ nextTimer <= MaxTimers
  /\ LET expiresIn == ToNumber(res.expiresIn)
         u == User(res.email, res.localId, res.idToken, now + expiresIn * MsPerSec)
     IN  /\ Apply(Did([Begin(Svc) EXCEPT !.user = u], "next"))
         /\ stack' = <<Statement("autoLogout", expiresIn * MsPerSec),
                       Statement("setItem", u),
                       Statement("subscriber", res)>>
  /\ pending' = Remove(pending, i)
  /\ returned' = null
  /\ UNCHANGED <<rcpVars, now, phase, cmpVars, userSub, req>>

\* logout() up to and including user.next(null), called by the header
\* (fired = {}) or by the callback of the due timeout t (fired = {t})
LogoutBegin(fired) ==
  /\ phase = "running"
  /\ stack = <<>>
  /\ \A t \in fired : t \in timers /\ t.at <= now
  /\ Apply(Did([Begin(Svc) EXCEPT !.user = null, !.timers = @ \ fired], "next"))
  /\ stack' = <<Statement("navigate", null), Statement("removeItem", null),
                Statement("clearTimeout", null)>>
  /\ pending' = MarkStale(pending)
  /\ returned' = null
  /\ UNCHANGED <<rcpVars, now, phase, cmpVars, userSub, req>>

\* the method executing runs its next statement
StatementStep ==
  /\ stack # <<>>
  /\ Apply(exec(Svc, Head(stack)))
  /\ stack' = Tail(stack)
  /\ isLoading' = IF Head(stack).op = "subscriber" THEN FALSE ELSE isLoading
  /\ returned' = IF Head(stack).op = "subscriber"
                 THEN [kind |-> "next", value |-> Head(stack).arg]
                 ELSE null
  /\ UNCHANGED <<rcpVars, now, phase, pending, error, userSub, req>>

NextSteps ==
  \/ Tick
  \/ stack = <<>> /\ AutoLogin
  \/ stack = <<>> /\ HeaderInit
  \/ stack = <<>> /\ \E isLoginMode \in BOOLEAN, email \in Emails :
                        OnSubmit(isLoginMode, email)
  \/ \E i \in 1..MaxPending : \E res \in UNION {OkResponses(e) : e \in Emails} :
       HandleAuthenticationBegin(i, res)
  \/ LogoutBegin({})
  \/ \E t \in timers : LogoutBegin({t})
  \/ StatementStep

SpecSteps == Init /\ [][NextSteps]_vars

----------------------------------------------------------------------------
(* RecipeService and a caller that changes the array it was given *)

authVars == <<now, phase, svcVars, pending, cmpVars, hdrVars, req, stack>>

\* a caller puts aside the array it holds and calls getRecipes()
GetRecipes ==
  /\ LET before == IF held = "none" THEN heap.old ELSE heap[held]
         r == getRecipes([heap EXCEPT !.old = before])
     IN  /\ heap' = r.heap
         /\ held' = r.ref
         /\ returned' = [kind |-> "getRecipes", value |-> r.heap[r.ref]]
  /\ UNCHANGED authVars

\* array.push(recipe)
CallerPush(recipe) ==
  /\ held # "none"
  /\ Len(heap[held]) < MaxLen
  /\ heap' = [heap EXCEPT ![held] = Append(@, recipe)]
  /\ returned' = null
  /\ UNCHANGED <<held, authVars>>

\* array.splice(i - 1, 1)
CallerSplice(i) ==
  /\ held # "none"
  /\ i \in DOMAIN heap[held]
  /\ heap' = [heap EXCEPT ![held] = Remove(@, i)]
  /\ returned' = null
  /\ UNCHANGED <<held, authVars>>

\* array.reverse()
CallerReverse ==
  /\ held # "none"
  /\ heap' = [heap EXCEPT ![held] = [k \in 1..Len(@) |-> @[Len(@) + 1 - k]]]
  /\ returned' = null
  /\ UNCHANGED <<held, authVars>>

NextRecipes ==
  \/ GetRecipes
  \/ \E recipe \in {Recipes0[k] : k \in DOMAIN Recipes0} \cup {OtherRecipe} :
       CallerPush(recipe)
  \/ \E i \in 1..MaxLen : CallerSplice(i)
  \/ CallerReverse

SpecRecipes == Init /\ [][NextRecipes]_vars

----------------------------------------------------------------------------
\* the gateway's answers where the kind of a failure does not matter: every
\* success, and the failure without a body
ReaderResponses(email) == OkResponses(email) \cup {[ok |-> FALSE, error |-> null]}

\* the session controller and the AuthComponent
Next ==
  \/ Tick
  \/ AutoLogin
  \/ Tamper
  \/ Reload
  \/ OnSubmitInvalid
  \/ OnHandleError
  \/ \E isLoginMode \in BOOLEAN, email \in Emails : OnSubmit(isLoginMode, email)
  \/ \E i \in 1..MaxPending : \E res \in UNION {ReaderResponses(e) : e \in Emails} :
       Respond(i, res)
  \/ Logout
  \/ \E t \in timers : TimerFire(t)

Spec == Init /\ [][Next]_vars

\* the session controller and the AuthComponent on a page that stays open,
\* one request in flight at a time: every answer of the gateway, success or
\* failure of any kind, to a request sent in any session state
NextAnswers ==
  \/ Tick
  \/ AutoLogin
  \/ OnHandleError
  \/ pending = <<>> /\ \E isLoginMode \in BOOLEAN, email \in Emails :
                          OnSubmit(isLoginMode, email)
  \/ \E i \in 1..MaxPending : \E res \in UNION {Responses(e) : e \in Emails} :
       Respond(i, res)
  \/ Logout
  \/ \E t \in timers : TimerFire(t)

SpecAnswers == Init /\ [][NextAnswers]_vars

\* the session controller together with the header and the router
NextReaders ==
  \/ Tick
  \/ AutoLogin
  \/ Tamper
  \/ Reload
  \/ \E isLoginMode \in BOOLEAN, email \in Emails : OnSubmit(isLoginMode, email)
  \/ \E i \in 1..MaxPending : \E res \in UNION {ReaderResponses(e) : e \in Emails} :
       Respond(i, res)
  \/ Logout
  \/ \E t \in timers : TimerFire(t)
  \/ HeaderInit
  \/ CanActivate

SpecReaders == Init /\ [][NextReaders]_vars

\* the session controller together with the HTTP client and the router:
\* requests are dispatched, and dispatched again, at any time
NextDispatch ==
  \/ Tick
  \/ AutoLogin
  \/ Reload
  \/ \E isLoginMode \in BOOLEAN, email \in Emails : OnSubmit(isLoginMode, email)
  \/ \E i \in 1..MaxPending : \E res \in UNION {OkResponses(e) : e \in Emails} :
       Respond(i, res)
  \/ Logout
  \/ \E t \in timers : TimerFire(t)
  \/ Intercept
  \/ CanActivate

SpecDispatch == Init /\ [][NextDispatch]_vars

\* one successful login on a fresh page and no other operation on the
\* session: the clock, the expiry timer and the readers of the session
NextLogin ==
  \/ Tick
  \/ AutoLogin
  \/ (nextTimer = 1 /\ pending = <<>>) /\ \E email \in Emails : OnSubmit(TRUE, email)
  \/ \E res \in UNION {OkResponses(e) : e \in Emails} : Respond(1, res)
  \/ \E t \in timers : TimerFire(t)
  \/ HeaderInit
  \/ Intercept
  \/ CanActivate

SpecLogin == Init /\ [][NextLogin]_vars

\* a double submit on a fresh page: the requests are all sent before the
\* first answer, and every answer is a success
NextDouble ==
  \/ Tick
  \/ AutoLogin
  \/ nextTimer = 1 /\ \E isLoginMode \in BOOLEAN, email \in Emails :
                         OnSubmit(isLoginMode, email)
  \/ \E i \in 1..MaxPending : \E res \in UNION {OkResponses(e) : e \in Emails} :
       Respond(i, res)
  \/ Logout
  \/ \E t \in timers : TimerFire(t)

SpecDouble == Init /\ [][NextDouble]_vars

\* the session controller with a clock that reaches every expiration date
\* (an answer is taken only if its credential expires within the horizon);
\* the user logs in and reloads the page but never asks for a logout
NextFair ==
  \/ Tick
  \/ AutoLogin
  \/ Reload
  \/ \E isLoginMode \in BOOLEAN, email \in Emails : OnSubmit(isLoginMode, email)
  \/ \E i \in 1..MaxPending : \E res \in UNION {ReaderResponses(e) : e \in Emails} :
       /\ res.ok => now + ToNumber(res.expiresIn) * MsPerSec <= MaxTime
       /\ Respond(i, res)
  \/ \E t \in timers : TimerFire(t)

\* time advances, and the event loop runs the callback of a due timeout
SpecFair ==
  /\ Init
  /\ [][NextFair]_vars
  /\ WF_vars(Tick)
  /\ WF_vars(\E t \in timers : TimerFire(t))

----------------------------------------------------------------------------
(* Properties *)

LogoutStep == Logout \/ \E t \in timers : TimerFire(t)

\* C1: the token getter exposes the stored token if and only if the time of
\* the read is strictly before the expiration date; at the expiration date
\* itself it returns null.
C1_TokenIffBeforeExpiry ==
  user # null =>
    ((tokenAt(user, now) # null) <=> (now < user._tokenExpirationDate))

\* C2: in every reachable state at most one expiry timer is live.
C2_AtMostOneLiveTimer == Cardinality(timers) <= 1

\* C3: when logout() completes, no expiry timer scheduled before it is live.
C3_LogoutLeavesNoTimer == [][LogoutStep => timers' = {}]_vars

\* C4: a successful response to a request sent before a later logout() is not
\* applied: session, store and timers stay as they are.
C4_StaleResponseNotApplied ==
  [][\A i \in DOMAIN pending : \A res \in OkResponses(pending[i].email) :
       (pending[i].stale /\ Respond(i, res))
         => UNCHANGED <<user, store, timers>>]_vars

\* C5: a gateway failure leaves the session, the store and the expiry timer
\* exactly as they were before the answer, whatever the state before.
C5_FailureLeavesSession ==
  [][\A i \in DOMAIN pending : \A res \in ErrorResponses :
       Respond(i, res)
         => UNCHANGED <<user, store, timers, tokenExpirationTimer>>]_vars

\* a failure was answered while a session was active with its timer pending
C5_Witness ==
  /\ effects = <<"throwError">>
  /\ user # null
  /\ store # null
  /\ timers # {}

\* C6: every gateway failure is mapped to exactly one kind, by its provider
\* code, and the caller's error callback receives that kind.
C6_Kind(res) ==
  IF res.error = null THEN "Unknown"
  ELSE IF res.error.error = null THEN "Unknown"
  ELSE IF res.error.error.message = "EMAIL_EXISTS" THEN "EmailAlreadyRegistered"
  ELSE IF res.error.error.message = "EMAIL_NOT_FOUND" THEN "EmailNotFound"
  ELSE IF res.error.error.message = "INVALID_PASSWORD" THEN "InvalidCredential"
  ELSE "Unknown"

C6_KindOfMessage(m) ==
  CASE m = "This email exists already" -> "EmailAlreadyRegistered"
    [] m = "This email does not exist." -> "EmailNotFound"
    [] m = "This password is not correct." -> "InvalidCredential"
    [] m = "An unknown error occurred!" -> "Unknown"
    [] OTHER -> "none"

C6_ErrorKinds ==
  [][\A i \in DOMAIN pending : \A res \in ErrorResponses :
       Respond(i, res)
         => /\ error' # null
            /\ C6_KindOfMessage(error'.message) = C6_Kind(res)]_vars

\* the component holds the message of an INVALID_PASSWORD failure
C6_Witness ==
  /\ effects = <<"throwError">>
  /\ error = [message |-> "This password is not correct."]

\* C7: after a successful login or signup handled at time now with TTL ttl,
\* the session holds the credential of the response with expiration date
\* now + ttl, the store holds that credential, and the session was set before
\* the store was written.
C7_SuccessSetsSessionThenStore ==
  [][\A i \in DOMAIN pending : \A res \in OkResponses(pending[i].email) :
       Respond(i, res)
         => /\ user' = [email |-> res.email, id |-> res.localId,
                        _token |-> res.idToken,
                        _tokenExpirationDate |->
                          now + ToNumber(res.expiresIn) * MsPerSec]
            /\ store' # null
            /\ store'.email = res.email
            /\ store'.id = res.localId
            /\ store'._token = res.idToken
            /\ DateParse(store'._tokenExpirationDate)
                 = now + ToNumber(res.expiresIn) * MsPerSec
            /\ \E a, b \in DOMAIN effects' :
                 a < b /\ effects'[a] = "next" /\ effects'[b] = "setItem"]_vars

\* a login with a TTL of one second was handled after the clock had advanced
C7_Witness ==
  /\ effects = <<"next", "setTimeout", "setItem">>
  /\ now > 0
  /\ user # null
  /\ user._tokenExpirationDate = now + MsPerSec
  /\ store # null

SameSession(s, t) ==
  /\ s.user = t.user
  /\ s.store = t.store
  /\ s.timers = t.timers
  /\ s.tokenExpirationTimer = t.tokenExpirationTimer

\* C8: logout() from any state leaves the session and the store empty, and a
\* second logout() right after it changes neither session, store nor timers.
C8_LogoutClearsAndIsIdempotent ==
  [][LogoutStep
       => /\ user' = null
          /\ store' = null
          /\ SameSession(logout(Svc'), Svc')]_vars

\* logout() ran on an active session and cleared its timer
C8_Witness ==
  /\ effects = <<"next", "navigate", "removeItem", "clearTimeout">>
  /\ user = null
  /\ store = null

\* C9: autoLogin() with a stored credential that is valid now restores it as
\* the session and arms the timer to fire at its expiration date.
C9_AutoLoginArmsRemaining ==
  [][(/\ AutoLogin
      /\ store \notin {null, Malformed}
      /\ now < DateParse(store._tokenExpirationDate))
       => /\ user' # null
          /\ JSONstringify(user') = store
          /\ \E t \in timers' :
               /\ t.id = tokenExpirationTimer'
               /\ t.at = user'._tokenExpirationDate
               /\ timers' = {t}]_vars

\* autoLogin() restored a credential half a second before its expiration
C9_Witness ==
  /\ effects = <<"getItem", "next", "setTimeout">>
  /\ user # null
  /\ now > 0
  /\ user._tokenExpirationDate - now = TickMs
  /\ \E t \in timers : t.at = user._tokenExpirationDate

\* C10: autoLogin() with a stored credential whose expiration date is in the
\* past leaves the session empty, schedules no timer and clears the store.
C10_AutoLoginClearsExpired ==
  [][(/\ AutoLogin
      /\ store \notin {null, Malformed}
      /\ DateParse(store._tokenExpirationDate) < now)
       => /\ user' = null
          /\ timers' = {}
          /\ store' = null]_vars

\* C11: autoLogin() on a missing or malformed store entry returns normally,
\* raising no error, and leaves the session empty with no timer scheduled.
C11_AutoLoginFailsOpen ==
  [][(AutoLogin /\ store \in {null, Malformed})
       => /\ "throw" \notin {effects'[k] : k \in DOMAIN effects'}
          /\ user' = null
          /\ timers' = {}]_vars

\* a step in which the interceptor runs: a dispatch by the HTTP client, in
\* onSubmit or outside it
InterceptStep ==
  \/ Intercept
  \/ \E isLoginMode \in BOOLEAN, email \in Emails : OnSubmit(isLoginMode, email)

\* the session holds a credential that is valid now (spec: now < expiresAt)
ActiveValid == user # null /\ now < user._tokenExpirationDate

\* the session holds a credential whose token getter yields a token now
TokenValid == user # null /\ tokenAt(user, now) # null

\* C12: the interceptor forwards the original request unmodified whenever the
\* session is empty or its credential is not valid at dispatch time, forwards
\* a clone carrying the token only when the credential is valid, and never
\* forwards a request with a null token attached.
C12_InterceptAttachesOnlyValid ==
  (returned # null /\ returned.kind = "handle")
    => /\ ~TokenValid => returned.req = req
       /\ TokenValid =>
            returned.req =
              clone(req, [params |-> HttpParamsSet("auth", [value |-> user._token])])
       /\ \A p \in returned.req.params : p.value # null

\* C13: canActivate returns true if and only if the session holds a
\* credential valid at call time; in every other case it returns a redirect
\* to "/auth".
C13_GuardAllowsOnlyValid ==
  (returned # null /\ returned.kind = "canActivate")
    => /\ TokenValid => returned.result = [type |-> "boolean", value |-> TRUE]
       /\ ~TokenValid =>
            returned.result = [type |-> "UrlTree", commands |-> <<"/auth">>]

\* C14: an observer that subscribes after the session was set to a credential
\* receives that credential at once, on subscribing; one that subscribes
\* before any set receives null.
C14_ReplayOnSubscribe ==
  (returned # null /\ returned.kind = "subscribe")
    => returned.delivered = <<user>>

\* the header subscribed while a session was active and was told so at once
C14_Witness ==
  /\ returned # null
  /\ returned.kind = "subscribe"
  /\ user # null
  /\ returned.delivered = <<user>>
  /\ isAuthenticated

\* the request given to next.handle carries the session's token
TokenAttached ==
  returned.req =
    clone(req, [params |-> HttpParamsSet("auth", [value |-> user._token])])

\* C15 (as claimed): after one successful login at T0 with TTL ttl and no
\* other operation, at every time before T0+ttl the interceptor attaches the
\* token, and at every time after T0+ttl the session is empty, the store entry
\* is erased and the interceptor passes requests through unmodified.
C15_ExpiredAtEveryLaterTime ==
  nextTimer = 2 =>
    /\ (user # null /\ now < user._tokenExpirationDate
          /\ returned # null /\ returned.kind = "handle") => TokenAttached
    /\ user # null => now <= user._tokenExpirationDate
    /\ user = null =>
         /\ store = null
         /\ (returned # null /\ returned.kind = "handle") => returned.req = req

\* C15 (amended): after one successful login at T0 with TTL ttl and no other
\* operation, at every time before T0+ttl the interceptor attaches the token;
\* until the expiry timer has run, the session stays active with that timer
\* pending for T0+ttl; once it has run, the session is empty, the store entry
\* is erased, no timer is left and the interceptor passes requests through
\* unmodified.
C15_ExpiredOnceTimerFired ==
  nextTimer = 2 =>
    /\ (user # null /\ now < user._tokenExpirationDate
          /\ returned # null /\ returned.kind = "handle") => TokenAttached
    /\ user # null =>
         /\ timers = {[id |-> 1, at |-> user._tokenExpirationDate]}
         /\ store = JSONstringify(user)
    /\ user = null =>
         /\ store = null
         /\ timers = {}
         /\ (returned # null /\ returned.kind = "handle") => returned.req = req

\* the timer of the only login has run and a request was then passed through
C15_Witness ==
  /\ nextTimer = 2
  /\ user = null
  /\ store = null
  /\ now > 0
  /\ returned # null
  /\ returned.kind = "handle"
  /\ returned.req = req

\* C16: when two login or signup attempts are in flight at once and both
\* succeed, then after both answers have been applied the session and the
\* store hold the credential of the answer that arrived last, whichever
\* request was sent first.  (Under SpecDouble every request is sent before
\* the first answer; the state right after an answer is the one in which
\* returned holds that answer.)
C16_LastResponseWins ==
  (returned # null /\ returned.kind = "next")
    => /\ user = [email |-> returned.value.email,
                   id |-> returned.value.localId,
                   _token |-> returned.value.idToken,
                   _tokenExpirationDate |->
                     now + ToNumber(returned.value.expiresIn) * MsPerSec]
       /\ store = JSONstringify(user)

\* the second of two answers was just applied, and the credential of the
\* first, whose timer is still pending, had another expiration date
C16_Witness ==
  /\ nextTimer = 3
  /\ returned # null
  /\ returned.kind = "next"
  /\ user # null
  /\ \E t \in timers : t.id = 1 /\ t.at # user._tokenExpirationDate

\* C17: round trip: for every credential c that a successful login saved, an
\* autoLogin() run while c is still valid rebuilds a credential equal to c
\* in id, email, token and expiration date; whether it is taken is decided
\* from the stored expiration date and the clock at load time, the stored
\* document holding no validity flag: after the date nothing is restored.
C17_RoundTrip ==
  [][\A e \in Emails, k \in 0..(MaxTicks + 2 * MaxTtl) :
       LET d == k * TickMs
           c == User(e, LocalIdOf(e), IdTokenOf(e), d)
       IN  (AutoLogin /\ store = JSONstringify(c))
             => /\ DOMAIN store = {"email", "id", "_token", "_tokenExpirationDate"}
                /\ now < d => user' = c
                /\ now > d => user' = null]_vars

\* autoLogin() rebuilt the stored credential, whose expiration date does not
\* fall on a whole second, while it was still valid
C17_Witness ==
  /\ effects = <<"getItem", "next", "setTimeout">>
  /\ user # null
  /\ store = JSONstringify(user)
  /\ user._tokenExpirationDate % MsPerSec # 0
  /\ now < user._tokenExpirationDate

\* C18: the session changes only in a step of the session controller (a
\* successful login or signup answer, logout(), autoLogin(), an expiry timer
\* firing) or when the page, and the memory with it, is reloaded; a step of
\* the interceptor or of the guard leaves the session, the store and the
\* timers as they were.
C18_OnlyControllerWrites ==
  [][/\ user' # user
          => \/ AutoLogin
             \/ Logout
             \/ \E t \in timers : TimerFire(t)
             \/ \E i \in DOMAIN pending, e \in Emails :
                  \E res \in OkResponses(e) : Respond(i, res)
             \/ Reload
     /\ (InterceptStep \/ CanActivate)
          => UNCHANGED <<user, store, timers, nextTimer, tokenExpirationTimer>>]_vars

\* the interceptor, outside onSubmit, or the guard just ran on an active
\* session with its store entry and its timer
C18_Witness ==
  /\ returned # null
  /\ returned.kind \in {"handle", "canActivate"}
  /\ pending = <<>>
  /\ user # null
  /\ store = JSONstringify(user)
  /\ timers # {}

\* C19: when the interceptor attaches the token it hands on a new request;
\* the request it was given is unchanged afterwards, so dispatching that
\* request again once the session is empty carries no token.
C19_OriginalRequestUnchanged ==
  [][InterceptStep
       => /\ req' \in Dispatchable(Svc, req)
          /\ req'.obj = "built"
          /\ req'.params = {}
          /\ user # null
               => /\ returned'.req.obj = "clone"
                  /\ \E p \in returned'.req.params : p.key = "auth"
          /\ user = null
               => /\ returned'.req = req'
                  /\ returned'.req.params = {}]_vars

\* the request of login was dispatched again, outside onSubmit, after a
\* session was set and emptied, and carries no parameter
C19_Witness ==
  /\ returned # null
  /\ returned.kind = "handle"
  /\ pending = <<>>
  /\ user = null
  /\ nextTimer > 1
  /\ req = LoginRequest
  /\ returned.req = LoginRequest

\* C20: an expiry timer firing never clears a session whose credential is
\* still valid: when a timer's callback empties the session, the credential
\* that was active had its expiration date at or before now; a timer armed
\* for an earlier credential does not log out a later login.
C20_TimerClearsOnlyExpired ==
  [][\A t \in timers :
       (TimerFire(t) /\ user # null /\ user' = null)
         => user._tokenExpirationDate <= now]_vars

\* C21: with time advancing and due timeouts being run, whenever the session
\* becomes a credential c (by login, signup or autoLogin) it eventually is
\* empty or holds another credential, with no action of the user needed.
C21_AutoLogoutEventually ==
  \A e \in Emails, k \in 0..MaxTicks :
    LET c == User(e, LocalIdOf(e), IdTokenOf(e), k * TickMs)
    IN  (user = c) ~> (user # c)

\* the callback of the expiry timeout, the only one armed since the page
\* was loaded, has run logout() and emptied the session
C21_Witness ==
  /\ user = null
  /\ effects = <<"next", "navigate", "removeItem", "clearTimeout">>
  /\ nextTimer = 2
  /\ timers = {}
  /\ now > 0

\* C22: when the session is set to a credential whose expiration date is at
\* or before now (a login answered with expiresIn 0), logout runs within the
\* same operation: when it returns the session is empty again and no timer
\* is pending.
C22_ExpiredLoginLogsOutAtOnce ==
  [][\A i \in DOMAIN pending, e \in Emails :
       \A res \in OkResponses(e) :
         (/\ Respond(i, res)
          /\ now + ToNumber(res.expiresIn) * MsPerSec <= now)
           => /\ user' = null
              /\ timers' = {}]_vars

\* C23: every credential that login or signup puts in the session has its
\* expiration date after the time at which the answer was handled, for
\* every expiresIn the answer can carry.
C23_ExpiresAfterIssued ==
  [][\A i \in DOMAIN pending, e \in Emails :
       \A res \in OkResponses(e) :
         Respond(i, res)
           => /\ user' # null
              /\ user'._tokenExpirationDate > now]_vars

\* C24: session transitions are atomic with respect to each other: from the
\* user.next of one transition until its store write and its timer
\* scheduling or cancelling are done, no other user.next begins (the log of
\* the task holds one "next", and a step taken while statements are left
\* leaves the session as it is and, if it touches the service at all, runs
\* the next of those statements).
C24_TransitionsAtomic ==
  [][/\ Cardinality({k \in DOMAIN effects' : effects'[k] = "next"}) <= 1
     /\ stack # <<>>
          => /\ user' = user
             /\ svcVars' = svcVars \/ stack' = Tail(stack)]_vars

\* a login's user.next has run with the header subscribed, the store is not
\* yet written, and both another answer and a due timeout are waiting
C24_Witness ==
  /\ stack # <<>>
  /\ userSub
  /\ user # null
  /\ store # JSONstringify(user)
  /\ pending # <<>>
  /\ \E t \in timers : t.at <= now

\* C25: in every state between operations, if the session holds a
\* credential c then the store holds the document of exactly c (same id,
\* email, token and expiration date).
C25_StoreMirrorsSession ==
  (stack = <<>> /\ user # null) => store = JSONstringify(user)

\* a second login replaced the credential of the first by one with another
\* expiration date, and the store holds the second
C25_Witness ==
  /\ stack = <<>>
  /\ user # null
  /\ store = JSONstringify(user)
  /\ nextTimer = 3
  /\ \E t \in timers : t.id = 1 /\ t.at # user._tokenExpirationDate

\* C26: in every state between operations, if the session holds a
\* credential c then a pending timeout exists that is due at c's expiration
\* date and tokenExpirationTimer is its handle; if the session is empty
\* after logout(), tokenExpirationTimer is null.
C26_TimerMirrorsSession ==
  /\ (stack = <<>> /\ user # null)
       => \E t \in timers : /\ t.id = tokenExpirationTimer
                            /\ t.at = user._tokenExpirationDate
  /\ (stack = <<>> /\ user = null /\ effects # <<>> /\ effects[1] = "next")
       => tokenExpirationTimer = NoTimer

\* the session holds the credential of a second login: its timeout is the
\* one held, beside the timeout of the first login
C26_Witness ==
  /\ stack = <<>>
  /\ user # null
  /\ Cardinality(timers) = 2
  /\ tokenExpirationTimer = 2
  /\ \E t \in timers : t.id = 2 /\ t.at = user._tokenExpirationDate

\* C27: while the header is subscribed, its isAuthenticated flag equals
\* (the session is not empty), after every session transition and right
\* after the subscription, for any order of login, logout, autoLogin, timer
\* firing and initialisation of the component.
C27_HeaderFlagFollowsSession ==
  userSub => (isAuthenticated = (user # null))

\* the header, subscribed while a credential was in the session, has been
\* told of the logout that a timeout's callback or the user ran
C27_Witness ==
  /\ userSub
  /\ ~isAuthenticated
  /\ user = null
  /\ effects # <<>>
  /\ effects[1] = "next"
  /\ nextTimer > 1

\* C28: in AuthComponent isLoading is true whenever a request started by
\* onSubmit is in flight and false once every started request has been
\* answered; a failed request leaves error equal to the mapped message;
\* onSubmit on an invalid form starts no request and changes neither
\* isLoading nor error.
C28_LoadingWhileInFlight ==
  [][/\ pending' # <<>> => isLoading'
     /\ pending' = <<>> => ~isLoading'
     /\ \A i \in DOMAIN pending, res \in ErrorResponses :
          Respond(i, res) => error' = [message |-> handleError(res)]
     /\ OnSubmitInvalid => UNCHANGED <<pending, isLoading, error>>]_vars

\* C29: getRecipes returns a copy of the list of recipes: adding, removing
\* or reordering elements of a returned array does not change the list the
\* service holds, so every later getRecipes call returns the same recipes
\* in the same order.
C29_GetRecipesReturnsCopy ==
  /\ heap.recipes = Recipes0
  /\ (returned # null /\ returned.kind = "getRecipes")
       => returned.value = Recipes0

\* getRecipes was just called again by a caller that had removed the
\* recipes of the service from the array of its earlier call and added one
\* of its own
C29_Witness ==
  /\ returned # null
  /\ returned.kind = "getRecipes"
  /\ heap.old = <<OtherRecipe>>

====
